---------------------------- MODULE Spec2Model ----------------------------
(***************************************************************************)
(* A model of EmuSkele.py: the menu loop, the device catalog parser, the   *)
(* Samsung and Pixel profile selectors, the AVD provisioner, the system    *)
(* dump orchestrator and the Shizuku helper.                               *)
(*                                                                         *)
(* Text that the program inspects character by character (the output of    *)
(* the wrapped tools, the lines typed at a prompt) is a sequence of        *)
(* one-character strings.  Text that the program only passes on (the       *)
(* literals of an argument vector, the console messages) is a string.      *)
(***************************************************************************)
EXTENDS Integers, Sequences, FiniteSets, TLC

(***************************************************************************)
(* Python's str operations, as far as the program uses them.               *)
(***************************************************************************)

NL == "\n"

\* str.strip / str.split with no argument treat these as whitespace.
IsSpace(c) == c \in {" ", "\t", NL}

UpperLetters == <<"A","B","C","D","E","F","G","H","I","J","K","L","M","N","O","P","Q","R","S","T","U","V","W","X","Y","Z">>

LowerLetters == <<"a","b","c","d","e","f","g","h","i","j","k","l","m","n","o","p","q","r","s","t","u","v","w","x","y","z">>

LowerChar(c) ==
    IF \E i \in DOMAIN UpperLetters : UpperLetters[i] = c
    THEN LowerLetters[CHOOSE i \in DOMAIN UpperLetters : UpperLetters[i] = c]
    ELSE c

\* str.lower()
Lower(s) == [i \in DOMAIN s |-> LowerChar(s[i])]

RECURSIVE LStrip(_)
LStrip(s) == IF s # <<>> /\ IsSpace(Head(s)) THEN LStrip(Tail(s)) ELSE s

RECURSIVE RStrip(_)
RStrip(s) ==
    IF s # <<>> /\ IsSpace(s[Len(s)]) THEN RStrip(SubSeq(s, 1, Len(s) - 1)) ELSE s

\* str.strip()
Strip(s) == RStrip(LStrip(s))

\* str.startswith(p)
StartsWith(s, p) == Len(s) >= Len(p) /\ SubSeq(s, 1, Len(p)) = p

\* `sub in s`
Contains(s, sub) ==
    \E i \in 0..(Len(s) - Len(sub)) : SubSeq(s, i + 1, i + Len(sub)) = sub

\* s.split(":", 1)[1] for an s that holds a colon: what follows the first one.
AfterFirstColon(s) ==
    LET k == CHOOSE i \in DOMAIN s : s[i] = ":" /\ \A j \in 1..(i - 1) : s[j] # ":"
    IN  SubSeq(s, k + 1, Len(s))

\* str.splitlines() for text whose line breaks are "\n": a final line break
\* opens no further line.
RECURSIVE SplitLinesFrom(_, _)
SplitLinesFrom(s, cur) ==
    IF s = <<>> THEN (IF cur = <<>> THEN <<>> ELSE <<cur>>)
    ELSE IF Head(s) = NL THEN <<cur>> \o SplitLinesFrom(Tail(s), <<>>)
    ELSE SplitLinesFrom(Tail(s), Append(cur, Head(s)))

SplitLines(s) == SplitLinesFrom(s, <<>>)

\* The text a tool prints when it prints these lines, one line break after each.
RECURSIVE JoinLines(_)
JoinLines(lines) ==
    IF lines = <<>> THEN <<>> ELSE Head(lines) \o <<NL>> \o JoinLines(Tail(lines))

\* Optional[...]: None is the empty tuple, a value v is <<v>>.
None == <<>>

Some(v) == <<v>>

\* Python's truth value of an Optional[str]: None and "" are both false.
Truthy(opt) == opt # None /\ opt[1] # <<>>

\* All sequences over S of length at most n.
SeqsUpTo(S, n) == UNION {[1..k -> S] : k \in 0..n}

(***************************************************************************)
(* Device Catalog Parser: list_avd_devices.                                *)
(***************************************************************************)

ID_PREFIX == <<"i","d",":">>

NAME_PREFIX == <<"n","a","m","e",":">>

\* d.get("name", "")
GetName(d) == IF "name" \in DOMAIN d THEN d.name ELSE <<>>

\* d.get("id", "")
GetId(d) == IF "id" \in DOMAIN d THEN d.id ELSE <<>>

\* A mutation of ParseLine: the value of a line is cut at its last colon.
ParseLineLastColon(devices, raw) ==
    LET line == Strip(raw)
        k == CHOOSE i \in DOMAIN line : line[i] = ":" /\ \A j \in (i + 1)..Len(line) : line[j] # ":"
        value == Strip(SubSeq(line, k + 1, Len(line)))
    IN  IF line = <<>> THEN devices
        ELSE IF StartsWith(line, ID_PREFIX) THEN Append(devices, [id |-> value])
        ELSE IF StartsWith(line, NAME_PREFIX) /\ devices # <<>>
             THEN [devices EXCEPT ![Len(devices)] = [id |-> @.id, name |-> value]]
        ELSE devices

\* One pass of the loop body over a line.  `current` is the dict appended last,
\* or, before the first "id:" line, a dict that is in no list: a "name:" line
\* then changes nothing that is returned.
ParseLine(devices, raw) ==
    LET line == Strip(raw)
    IN  IF line = <<>> THEN devices
        ELSE IF StartsWith(line, ID_PREFIX)
             THEN Append(devices, [id |-> Strip(AfterFirstColon(line))])
        ELSE IF StartsWith(line, NAME_PREFIX)
             THEN IF devices = <<>> THEN devices
                  ELSE [devices EXCEPT ![Len(devices)] =
                            [id |-> @.id, name |-> Strip(AfterFirstColon(line))]]
        ELSE devices

RECURSIVE ParseLines(_, _)
ParseLines(lines, devices) ==
    IF lines = <<>> THEN devices
    ELSE ParseLines(Tail(lines), ParseLine(devices, Head(lines)))

\* list_avd_devices on a found avdmanager, by the child's outcome and output.
\* `except Exception` turns a failed child into an empty catalog; an interrupt
\* is no Exception and is not handled here.
list_avd_devices(outcome, stdout) ==
    IF outcome = "ok" THEN ParseLines(SplitLines(stdout), <<>>) ELSE <<>>

(***************************************************************************)
(* Device Selector: the heuristics of create_samsung_device and            *)
(* create_pixel_device.                                                    *)
(***************************************************************************)

\* The id of the first record whose flag is set, as the loop
\* `for d in devices: if <test of d>: preferred = d["id"]; break` finds it;
\* flags[i] is the test of devs[i].
FirstMatch(devs, flags) ==
    IF \E i \in DOMAIN devs : flags[i]
    THEN Some(devs[CHOOSE i \in DOMAIN devs :
                  flags[i] /\ \A j \in 1..(i - 1) : ~flags[j]].id)
    ELSE None

SamsungKeywords ==
    <<<<"g","a","l","a","x","y">>, <<"s","a","m","s","u","n","g">>,
      <<"l","a","r","g","e">>, <<"x","l","a","r","g","e">>>>

MatchesSamsung(d) ==
    LET name == Lower(GetName(d))
    IN  \E k \in DOMAIN SamsungKeywords : Contains(name, SamsungKeywords[k])

\* ("pixel_6", "pixel_5", "Nexus 6", "Nexus 5X")
Fallbacks ==
    <<<<"p","i","x","e","l","_","6">>, <<"p","i","x","e","l","_","5">>,
      <<"N","e","x","u","s"," ","6">>, <<"N","e","x","u","s"," ","5","X">>>>

MatchesFallback(d, fallback) ==
    \/ Contains(Lower(GetName(d)), Lower(fallback))
    \/ Contains(Lower(GetId(d)), Lower(fallback))

\* A mutation of FallbackScan: one pass over the catalog, in catalog order, for
\* a record that matches any of the fallbacks.
FallbackScanCatalogOrder(devs, fallbacks, chosen) ==
    LET hit == FirstMatch(devs, [i \in DOMAIN devs |->
                   \E k \in DOMAIN fallbacks : MatchesFallback(devs[i], fallbacks[k])])
    IN  IF hit # None THEN hit ELSE chosen

\* The loop over the fallbacks: the outer loop takes them in their order, the
\* inner loop takes the first record of the catalog that matches the one at
\* hand, and the outer loop ends as soon as `preferred` is true.
RECURSIVE FallbackScan(_, _, _)
FallbackScan(devs, fallbacks, chosen) ==
    IF fallbacks = <<>> THEN chosen
    ELSE LET hit == FirstMatch(devs, [i \in DOMAIN devs |->
                        MatchesFallback(devs[i], Head(fallbacks))])
             p == IF hit # None THEN hit ELSE chosen
         IN  IF Truthy(p) THEN p ELSE FallbackScan(devs, Tail(fallbacks), p)

\* A mutation of SamsungPreferred: with no match the first record is taken.
SamsungPreferredDefaultFirst(devs) ==
    LET first == FirstMatch(devs, [i \in DOMAIN devs |-> MatchesSamsung(devs[i])])
        p == IF ~Truthy(first) THEN FallbackScan(devs, Fallbacks, first) ELSE first
    IN  IF p = None /\ devs # <<>> THEN Some(devs[1].id) ELSE p

\* The profile create_samsung_device hands to create_avd.
SamsungPreferred(devs) ==
    LET first == FirstMatch(devs, [i \in DOMAIN devs |-> MatchesSamsung(devs[i])])
    IN  IF ~Truthy(first) THEN FallbackScan(devs, Fallbacks, first) ELSE first

PIXEL == <<"p","i","x","e","l">>

PIXEL_6 == <<"p","i","x","e","l","_","6">>

PIXEL_3 == <<"p","i","x","e","l","_","3">>

MatchesPixel(d) ==
    \/ Contains(Lower(GetName(d)), PIXEL)
    \/ Contains(Lower(GetId(d)), PIXEL_6)
    \/ Contains(Lower(GetId(d)), PIXEL_3)

\* The profile create_pixel_device hands to create_avd.
PixelPreferred(devs) == FirstMatch(devs, [i \in DOMAIN devs |-> MatchesPixel(devs[i])])

(***************************************************************************)
(* Argument vectors and the console.                                       *)
(***************************************************************************)

\* An argument is a literal of the source around a text of the run:
\* pre + val + post.
Fmt(pre, val, post) == [pre |-> pre, val |-> val, post |-> post]

Lit(s) == Fmt(s, <<>>, "")

Val(v) == Fmt("", v, "")

\* The events of an operation, in their order: a child process is started, it
\* ends, a line is written to the console, a prompt is shown, a line is read
\* from it, an exception is raised to the caller of main_menu.
Run(argv) == [ev |-> "run", argv |-> argv]

Exit(outcome) == [ev |-> "exit", outcome |-> outcome]

Echo(msg) == [ev |-> "echo", msg |-> msg]

Input(prompt) == [ev |-> "input", prompt |-> prompt]

Read(line) == [ev |-> "read", line |-> line]

Raise(exc) == [ev |-> "raise", exc |-> exc]

TOOLS == {"sdkmanager", "avdmanager", "emulator", "adb"}

DEFAULT_API_LEVEL == "31"

DEFAULT_ABI == "x86_64"

DEFAULT_TAG == "google_apis"

\* f"system-images;android-{api};{tag};{abi}"
PackageId(api, tag, abi) == "system-images;android-" \o api \o ";" \o tag \o ";" \o abi

SdkCmd(api) == <<Lit("sdkmanager"), Lit(PackageId(api, DEFAULT_TAG, DEFAULT_ABI))>>

\* The argument vector of create_avd.
CreateAvdCmd(name, device_profile, api) ==
    <<Lit("avdmanager"), Lit("create"), Lit("avd"), Lit("--name"), Lit(name),
      Lit("--package"), Lit(PackageId(api, DEFAULT_TAG, DEFAULT_ABI)), Lit("--force")>>
    \o (IF Truthy(device_profile) THEN <<Lit("--device"), Val(device_profile[1])>> ELSE <<>>)

(***************************************************************************)
(* System Dump Orchestrator: the pure parts of choose_connected_device.    *)
(***************************************************************************)

\* str.split(): the maximal runs of characters that are not whitespace.
RECURSIVE SplitWordsFrom(_, _)
SplitWordsFrom(s, cur) ==
    IF s = <<>> THEN (IF cur = <<>> THEN <<>> ELSE <<cur>>)
    ELSE IF IsSpace(Head(s))
         THEN (IF cur = <<>> THEN <<>> ELSE <<cur>>) \o SplitWordsFrom(Tail(s), <<>>)
    ELSE SplitWordsFrom(Tail(s), Append(cur, Head(s)))

SplitWords(s) == SplitWordsFrom(s, <<>>)

\* The loop over lines[1:]: a line of at least two words is a device
\* (serial, state).
RECURSIVE AdbDeviceLines(_)
AdbDeviceLines(lines) ==
    IF lines = <<>> THEN <<>>
    ELSE LET l == Head(lines)
             parts == SplitWords(l)
         IN  IF Strip(l) = <<>> THEN AdbDeviceLines(Tail(lines))
             ELSE IF Len(parts) >= 2
                  THEN <<<<parts[1], parts[2]>>>> \o AdbDeviceLines(Tail(lines))
             ELSE AdbDeviceLines(Tail(lines))

\* The devices choose_connected_device reads from the output of `adb devices`:
\* res.stdout.strip().splitlines(), less its first line.
ParseAdbDevices(stdout) ==
    LET lines == SplitLines(Strip(stdout))
    IN  AdbDeviceLines(IF lines = <<>> THEN <<>> ELSE Tail(lines))

Digits == <<"0","1","2","3","4","5","6","7","8","9">>

IsDigit(c) == \E i \in DOMAIN Digits : Digits[i] = c

DigitValue(c) == (CHOOSE i \in DOMAIN Digits : Digits[i] = c) - 1

RECURSIVE DigitsValue(_, _)
DigitsValue(s, acc) ==
    IF s = <<>> THEN acc ELSE DigitsValue(Tail(s), 10 * acc + DigitValue(Head(s)))

\* int(s) for a stripped s of signs, ASCII digits and other characters: an
\* optional sign and then decimal digits; None stands for ValueError.
IntOf(s) ==
    LET signed == s # <<>> /\ Head(s) \in {"-", "+"}
        digits == IF signed THEN Tail(s) ELSE s
    IN  IF digits = <<>> \/ \E i \in DOMAIN digits : ~IsDigit(digits[i]) THEN None
        ELSE IF signed /\ Head(s) = "-" THEN Some(0 - DigitsValue(digits, 0))
        ELSE Some(DigitsValue(digits, 0))

\* list[i] of Python: i in 0..n-1 counts from the front, i in -n..-1 from the
\* back; None stands for IndexError.
ListIndex(list, i) ==
    LET n == Len(list)
    IN  IF 0 <= i /\ i < n THEN Some(list[i + 1])
        ELSE IF 0 - n <= i /\ i < 0 THEN Some(list[n + i + 1])
        ELSE None

\* The serial choose_connected_device returns for the line read at its prompt,
\* None after "Invalid choice.".
ChooseDevice(devices, line) ==
    LET stripped == Strip(line)
        choice == IF stripped = <<>> THEN <<"1">> ELSE stripped
        n == IntOf(choice)
        hit == IF n = None THEN None ELSE ListIndex(devices, n[1] - 1)
    IN  IF hit = None THEN None ELSE Some(hit[1][1])

REMOTE_IMG == "/sdcard/system.img"

DdCmd(serial) ==
    <<Lit("adb"), Lit("-s"), Val(serial), Lit("shell"),
      Lit("su -c 'dd if=/dev/block/by-name/system of=/sdcard/system.img bs=4096 || dd if=/dev/block/platform/*/by-name/system of=/sdcard/system.img bs=4096'")>>

PullImgCmd(serial) ==
    <<Lit("adb"), Lit("-s"), Val(serial), Lit("pull"), Lit(REMOTE_IMG),
      Fmt("", serial, "_system.img")>>

RmCmd(serial) ==
    <<Lit("adb"), Lit("-s"), Val(serial), Lit("shell"), Lit("rm " \o REMOTE_IMG)>>

PullSystemCmd(serial) ==
    <<Lit("adb"), Lit("-s"), Val(serial), Lit("pull"), Lit("/system"),
      Fmt("", serial, "_system")>>

InstallCmd(apk_path) == <<Lit("adb"), Lit("install"), Lit("-r"), Val(apk_path)>>

(***************************************************************************)
(* AVD Provisioner: create_avd and ensure_system_image, as continuations.  *)
(* A continuation is the events the code produces up to the next call that *)
(* blocks, and the place where it blocks: pc is the call the process is    *)
(* waiting in, "menu" the prompt of main_menu, "done" the end of the       *)
(* process.                                                                *)
(***************************************************************************)

AvdName(o) == IF o = "samsung" THEN "Samsung_Device_AVD" ELSE "Pixel_Device_AVD"

\* The line create_samsung_device / create_pixel_device prints after create_avd
\* returned, however it returned.
Trailer(o) ==
    IF o = "samsung"
    THEN Echo("You can start the emulator with option to run headless or with window.")
    ELSE Echo("Pixel-like AVD created.")

\* create_avd from the return of ensure_system_image on.
AfterSystemImage(ft, o, profile) ==
    IF ~ft["avdmanager"]
    THEN [pc |-> "menu",
          events |-> <<Echo("avdmanager not found. Install Android command-line tools and ensure avdmanager is on PATH."),
                       Trailer(o)>>]
    ELSE [pc |-> "create",
          events |-> <<Echo("Creating AVD"),
                       Run(CreateAvdCmd(AvdName(o), profile, DEFAULT_API_LEVEL))>>]

\* A mutation of AfterSdk: a failed sdkmanager ends the operation.
AfterSdkFatal(ft, o, profile, outcome) ==
    IF outcome = "oserror" THEN [pc |-> "done", events |-> <<Raise("OSError")>>]
    ELSE IF outcome = "fail"
         THEN [pc |-> "menu",
               events |-> <<Echo("sdkmanager failed. You may need to run the command manually with correct SDK tools installed."),
                            Trailer(o)>>]
    ELSE AfterSystemImage(ft, o, profile)

\* ensure_system_image once sdkmanager has ended, and create_avd after it.
\* Only CalledProcessError is caught.
AfterSdk(ft, o, profile, outcome) ==
    IF outcome = "oserror" THEN [pc |-> "done", events |-> <<Raise("OSError")>>]
    ELSE LET rest == AfterSystemImage(ft, o, profile)
         IN  [pc |-> rest.pc,
              events |-> (IF outcome = "fail"
                          THEN <<Echo("sdkmanager failed. You may need to run the command manually with correct SDK tools installed.")>>
                          ELSE <<>>) \o rest.events]

\* create_avd up to its first child process.
StartCreateAvd(ft, o, profile) ==
    IF ft["sdkmanager"]
    THEN [pc |-> "sdk",
          events |-> <<Echo("Ensuring system image package is installed"),
                       Run(SdkCmd(DEFAULT_API_LEVEL))>>]
    ELSE LET rest == AfterSystemImage(ft, o, profile)
         IN  [pc |-> rest.pc,
              events |-> <<Echo("sdkmanager not found; cannot install system images automatically.")>>
                         \o rest.events]

\* create_avd once `avdmanager create avd` has ended.
AfterCreate(o, outcome) ==
    IF outcome = "oserror" THEN [pc |-> "done", events |-> <<Raise("OSError")>>]
    ELSE IF outcome = "fail"
         THEN [pc |-> "menu", events |-> <<Echo("Failed to create AVD. Output:"), Trailer(o)>>]
    ELSE [pc |-> "menu", events |-> <<Echo("AVD created."), Trailer(o)>>]

\* The selector of the operation at hand.
Preferred(o, devs) == IF o = "samsung" THEN SamsungPreferred(devs) ELSE PixelPreferred(devs)

(***************************************************************************)
(* create_system_image_dump, as continuations.                             *)
(***************************************************************************)

DUMP_FAILED == "Failed to dd/pull system image. Check if the device is rooted or try method 2 (pull /system)."

\* A mutation of AfterAdbDevices: the list is not checked for being empty.
AfterAdbDevicesNoCheck(outcome, devs) ==
    IF outcome = "oserror" THEN [pc |-> "done", events |-> <<Raise("OSError")>>]
    ELSE IF outcome = "fail" THEN [pc |-> "menu", events |-> <<Echo("adb devices failed.")>>]
    ELSE [pc |-> "pickdev",
          events |-> <<Echo("Connected devices/emulators:"),
                       Input("Pick device number (default 1): ")>>]

\* choose_connected_device once `adb devices` has ended.
AfterAdbDevices(outcome, devs) ==
    IF outcome = "oserror" THEN [pc |-> "done", events |-> <<Raise("OSError")>>]
    ELSE IF outcome = "fail" THEN [pc |-> "menu", events |-> <<Echo("adb devices failed.")>>]
    ELSE IF devs = <<>>
         THEN [pc |-> "menu", events |-> <<Echo("No devices/emulators attached.")>>]
    ELSE [pc |-> "pickdev",
          events |-> <<Echo("Connected devices/emulators:"),
                       Input("Pick device number (default 1): ")>>]

\* create_system_image_dump from the return of choose_connected_device to the
\* prompt for the method.
AfterChoose(chosen) ==
    IF chosen = None THEN [pc |-> "menu", events |-> <<Echo("Invalid choice.")>>]
    ELSE [pc |-> "method",
          events |-> <<Echo("NOTE: Creating a system image typically requires root on the target device or running an emulator."),
                       Input("Choose method (1 or 2) [1]: ")>>]

\* The branch on the method read: input(...).strip() or "1".
AfterMethod(ser, line) ==
    LET stripped == Strip(line)
        choice == IF stripped = <<>> THEN <<"1">> ELSE stripped
    IN  IF choice = <<"1">>
        THEN [pc |-> "dd",
              events |-> <<Echo("Attempting dd on device (this will likely fail on unrooted devices)."),
                           Run(DdCmd(ser))>>]
        ELSE [pc |-> "pull2",
              events |-> <<Echo("Attempting to pull /system (may be restricted on modern devices)."),
                           Run(PullSystemCmd(ser))>>]

\* A mutation of AfterPull: the remote image is removed whether or not the pull
\* succeeded.
AfterPullAlwaysRm(ser, outcome) ==
    IF outcome = "oserror" THEN [pc |-> "done", events |-> <<Raise("OSError")>>]
    ELSE [pc |-> "rm", events |-> <<Echo("Cleaning remote image"), Run(RmCmd(ser))>>]

\* Method 1 once dd has ended.
AfterDd(ser, outcome) ==
    IF outcome = "oserror" THEN [pc |-> "done", events |-> <<Raise("OSError")>>]
    ELSE IF outcome = "fail" THEN [pc |-> "menu", events |-> <<Echo(DUMP_FAILED)>>]
    ELSE [pc |-> "pull", events |-> <<Run(PullImgCmd(ser))>>]

\* Method 1 once the pull has ended.
AfterPull(ser, outcome) ==
    IF outcome = "oserror" THEN [pc |-> "done", events |-> <<Raise("OSError")>>]
    ELSE IF outcome = "fail" THEN [pc |-> "menu", events |-> <<Echo(DUMP_FAILED)>>]
    ELSE [pc |-> "rm",
          events |-> <<Echo("Pulled image"), Echo("Cleaning remote image"), Run(RmCmd(ser))>>]

\* Method 1 once the remote rm has ended.
AfterRm(outcome) ==
    IF outcome = "oserror" THEN [pc |-> "done", events |-> <<Raise("OSError")>>]
    ELSE IF outcome = "fail" THEN [pc |-> "menu", events |-> <<Echo(DUMP_FAILED)>>]
    ELSE [pc |-> "menu", events |-> <<>>]

\* Method 2 once the pull of /system has ended.
AfterPullSystem(outcome) ==
    IF outcome = "oserror" THEN [pc |-> "done", events |-> <<Raise("OSError")>>]
    ELSE IF outcome = "fail"
         THEN [pc |-> "menu",
               events |-> <<Echo("Recursive pull failed. Consider using a rooted device or an emulator to perform a full dump.")>>]
    ELSE [pc |-> "menu", events |-> <<Echo("/system pulled to local directory")>>]

(***************************************************************************)
(* setup_shizuku, as continuations.                                        *)
(***************************************************************************)

SHIZUKU_HELP == "Refer to Shizuku docs: https://shizuku.rikka.app/"

\* setup_shizuku from the path read on; `exists` is os.path.exists(apk_path).
AfterApkPath(line, exists) ==
    LET apk_path == Strip(line)
    IN  IF apk_path = <<>> THEN [pc |-> "menu", events |-> <<Echo(SHIZUKU_HELP)>>]
        ELSE IF ~exists
             THEN [pc |-> "menu", events |-> <<Echo("APK path does not exist."), Echo(SHIZUKU_HELP)>>]
        ELSE [pc |-> "install", events |-> <<Run(InstallCmd(apk_path))>>]

\* setup_shizuku once `adb install -r` has ended.
AfterInstall(outcome) ==
    IF outcome = "oserror" THEN [pc |-> "done", events |-> <<Raise("OSError")>>]
    ELSE IF outcome = "fail"
         THEN [pc |-> "menu", events |-> <<Echo("Failed to install APK via adb."), Echo(SHIZUKU_HELP)>>]
    ELSE [pc |-> "menu", events |-> <<Echo("APK installed (or reinstalled)."), Echo(SHIZUKU_HELP)>>]

(***************************************************************************)
(* The process.                                                            *)
(***************************************************************************)

VARIABLES
    found_tools,  \* ensure_tools(): for each tool, whether a path was found
    pc,           \* where the process blocks
    op,           \* the operation of the menu choice read last
    devices,      \* the catalog list_avd_devices returned
    preferred,    \* the profile the selector picked
    connected,    \* the devices choose_connected_device listed
    serial,       \* the serial choose_connected_device returned
    trace,        \* the events since the last answer to the menu prompt
    exit_status,  \* None while the process runs, then its exit status
    ended_by,     \* what ended the process
    pairs,        \* parser check: the pairs the catalog text is made of
    parsed        \* parser check: None, or Some(the records returned for it)

vars ==
    <<found_tools, pc, op, devices, preferred, connected, serial, trace,
      exit_status, ended_by, pairs, parsed>>

parserVars == <<pairs, parsed>>

localVars == <<devices, preferred, connected, serial>>

\* The lengths of the tool outputs the environment produces.
MaxLines == 3

AdbMaxLines == 3

\* Lines avdmanager may print.
CatalogLines ==
    { <<"i","d",":"," ","2","3">>,
      <<"i","d",":"," ","p","i","x","e","l","_","5">>,
      <<"i","d",":"," ","p","i","x","e","l","_","6">>,
      <<"i","d",":">>,
      <<" "," ","n","a","m","e",":"," ","G","a","l","a","x","y">>,
      <<"n","a","m","e",":"," ","\"","p","i","x","e","l","_","5","\"">>,
      <<"n","a","m","e",":"," ","N","e","x","u","s"," ","5","X">>,
      <<"N","a","m","e",":"," ","X","L","a","r","g","e">>,
      <<"n","a","m","e",":","x","L","a","r","g","e",":","1">> }

CatalogTexts == {JoinLines(ls) : ls \in SeqsUpTo(CatalogLines, MaxLines)}

\* Lines `adb devices` may print.
AdbLines ==
    { <<"L","i","s","t"," ","o","f"," ","d","e","v","i","c","e","s"," ","a","t","t","a","c","h","e","d">>,
      <<"e","m","u","-","1","\t","d","e","v","i","c","e">>,
      <<"R","5","8"," ","o","f","f","l","i","n","e">>,
      <<"j","u","n","k">>,
      <<>> }

AdbTexts == {JoinLines(ls) : ls \in SeqsUpTo(AdbLines, AdbMaxLines)}

\* Lines the user may type.
MenuLines ==
    { <<"1">>, <<"2">>, <<"3">>, <<"4">>, <<" ","Q">>, <<"q","u","i","t">>,
      <<"E","x","i","t">>, <<"5">>, <<>> }

DeviceLines ==
    { <<>>, <<"1">>, <<" ","2"," ">>, <<"3">>, <<"4">>, <<"0">>, <<"-","1">>, <<"x">> }

MethodLines == { <<>>, <<"1">>, <<"2">>, <<"x">> }

ApkLines == { <<>>, <<" ">>, <<"a",".","a","p","k">> }

\* The ways a child process started with check=True ends, short of an
\* interrupt: it exits zero, it exits non-zero (CalledProcessError), it cannot
\* be started (OSError).
ChildOutcomes == {"ok", "fail", "oserror"}

QuitChoices == { <<"q">>, <<"q","u","i","t">>, <<"e","x","i","t">> }

\* input("Choose an option: ").strip().lower()
MenuChoice(line) == Lower(Strip(line))

Init ==
    /\ found_tools \in [TOOLS -> BOOLEAN]
    /\ pc = "menu"
    /\ op = "none"
    /\ devices = <<>>
    /\ preferred = None
    /\ connected = <<>>
    /\ serial = None
    /\ trace = <<>>
    /\ exit_status = None
    /\ ended_by = "none"
    /\ pairs = <<>>
    /\ parsed = None

\* The process goes on as the continuation says; an exception that nothing
\* catches ends it with a traceback and exit status 1.
Continue(before, next) ==
    /\ pc' = next.pc
    /\ trace' = before \o next.events
    /\ exit_status' = IF next.pc = "done" THEN Some(1) ELSE None
    /\ ended_by' = IF next.pc = "done" THEN next.events[Len(next.events)].exc ELSE "none"

\* A choice of q, quit or exit: the loop breaks and main_menu returns.
MenuQuit ==
    /\ pc = "menu"
    /\ \E line \in MenuLines :
          /\ MenuChoice(line) \in QuitChoices
          /\ trace' = <<Read(line), Echo("Exiting.")>>
    /\ pc' = "done"
    /\ op' = "none"
    /\ exit_status' = Some(0)
    /\ ended_by' = "quit"
    /\ devices' = <<>> /\ preferred' = None /\ connected' = <<>> /\ serial' = None
    /\ UNCHANGED <<found_tools, pairs, parsed>>

\* A choice that is none of the menu's.
MenuUnknown ==
    /\ pc = "menu"
    /\ \E line \in MenuLines :
          /\ MenuChoice(line) \notin QuitChoices \cup { <<"1">>, <<"2">>, <<"3">>, <<"4">> }
          /\ trace' = <<Read(line), Echo("Unknown choice.")>>
    /\ op' = "none"
    /\ devices' = <<>> /\ preferred' = None /\ connected' = <<>> /\ serial' = None
    /\ UNCHANGED <<found_tools, pc, exit_status, ended_by, pairs, parsed>>

\* Choice 1 or 2: create_samsung_device / create_pixel_device up to the first
\* child process.
MenuCreate ==
    /\ pc = "menu"
    /\ \E line \in MenuLines :
          /\ MenuChoice(line) \in { <<"1">>, <<"2">> }
          /\ op' = IF MenuChoice(line) = <<"1">> THEN "samsung" ELSE "pixel"
          /\ IF found_tools["avdmanager"]
             THEN Continue(<<Read(line)>>,
                           [pc |-> "list",
                            events |-> <<Run(<<Lit("avdmanager"), Lit("list"), Lit("device")>>)>>])
             ELSE Continue(<<Read(line)>>, StartCreateAvd(found_tools, op', Preferred(op', <<>>)))
    /\ devices' = <<>>
    /\ preferred' = IF found_tools["avdmanager"] THEN None ELSE Preferred(op', <<>>)
    /\ connected' = <<>> /\ serial' = None
    /\ UNCHANGED <<found_tools, pairs, parsed>>

\* `avdmanager list device` has ended: the catalog is parsed, the selector
\* picks a profile and create_avd starts.
ListDone ==
    /\ pc = "list"
    /\ \E outcome \in ChildOutcomes :
       \E stdout \in (IF outcome = "ok" THEN CatalogTexts ELSE {<<>>}) :
          /\ devices' = list_avd_devices(outcome, stdout)
          /\ preferred' = Preferred(op, devices')
          /\ Continue(Append(trace, Exit(outcome)),
                      StartCreateAvd(found_tools, op, preferred'))
    /\ UNCHANGED <<found_tools, op, connected, serial, pairs, parsed>>

\* sdkmanager has ended.
SdkDone ==
    /\ pc = "sdk"
    /\ \E outcome \in ChildOutcomes :
          Continue(Append(trace, Exit(outcome)), AfterSdk(found_tools, op, preferred, outcome))
    /\ UNCHANGED <<found_tools, op, localVars, pairs, parsed>>

\* `avdmanager create avd` has ended.
CreateDone ==
    /\ pc = "create"
    /\ \E outcome \in ChildOutcomes :
          Continue(Append(trace, Exit(outcome)), AfterCreate(op, outcome))
    /\ UNCHANGED <<found_tools, op, localVars, pairs, parsed>>

\* Choice 3: create_system_image_dump up to `adb devices`.
MenuDump ==
    /\ pc = "menu"
    /\ \E line \in MenuLines :
          /\ MenuChoice(line) = <<"3">>
          /\ IF found_tools["adb"]
             THEN Continue(<<Read(line)>>,
                           [pc |-> "adbdevices", events |-> <<Run(<<Lit("adb"), Lit("devices")>>)>>])
             ELSE Continue(<<Read(line)>>,
                           [pc |-> "menu", events |-> <<Echo("adb not found. Cannot continue.")>>])
    /\ op' = "dump"
    /\ devices' = <<>> /\ preferred' = None /\ connected' = <<>> /\ serial' = None
    /\ UNCHANGED <<found_tools, pairs, parsed>>

\* `adb devices` has ended.
AdbDevicesDone ==
    /\ pc = "adbdevices"
    /\ \E outcome \in ChildOutcomes :
       \E stdout \in (IF outcome = "ok" THEN AdbTexts ELSE {<<>>}) :
          /\ connected' = IF outcome = "ok" THEN ParseAdbDevices(stdout) ELSE <<>>
          /\ Continue(Append(trace, Exit(outcome)), AfterAdbDevices(outcome, connected'))
    /\ UNCHANGED <<found_tools, op, devices, preferred, serial, pairs, parsed>>

\* A line is read at the device prompt.
PickDevice ==
    /\ pc = "pickdev"
    /\ \E line \in DeviceLines :
          /\ serial' = ChooseDevice(connected, line)
          /\ Continue(Append(trace, Read(line)), AfterChoose(serial'))
    /\ UNCHANGED <<found_tools, op, devices, preferred, connected, pairs, parsed>>

\* A line is read at the method prompt.
ChooseMethod ==
    /\ pc = "method"
    /\ \E line \in MethodLines :
          Continue(Append(trace, Read(line)), AfterMethod(serial[1], line))
    /\ UNCHANGED <<found_tools, op, localVars, pairs, parsed>>

DdDone ==
    /\ pc = "dd"
    /\ \E outcome \in ChildOutcomes :
          Continue(Append(trace, Exit(outcome)), AfterDd(serial[1], outcome))
    /\ UNCHANGED <<found_tools, op, localVars, pairs, parsed>>

PullDone ==
    /\ pc = "pull"
    /\ \E outcome \in ChildOutcomes :
          Continue(Append(trace, Exit(outcome)), AfterPull(serial[1], outcome))
    /\ UNCHANGED <<found_tools, op, localVars, pairs, parsed>>

RmDone ==
    /\ pc = "rm"
    /\ \E outcome \in ChildOutcomes :
          Continue(Append(trace, Exit(outcome)), AfterRm(outcome))
    /\ UNCHANGED <<found_tools, op, localVars, pairs, parsed>>

PullSystemDone ==
    /\ pc = "pull2"
    /\ \E outcome \in ChildOutcomes :
          Continue(Append(trace, Exit(outcome)), AfterPullSystem(outcome))
    /\ UNCHANGED <<found_tools, op, localVars, pairs, parsed>>

\* Choice 4: setup_shizuku up to its prompt.
MenuShizuku ==
    /\ pc = "menu"
    /\ \E line \in MenuLines :
          /\ MenuChoice(line) = <<"4">>
          /\ IF found_tools["adb"]
             THEN Continue(<<Read(line)>>,
                           [pc |-> "apk",
                            events |-> <<Echo("Shizuku setup helper."),
                                         Input("Path to Shizuku APK to install (leave empty to skip install): ")>>])
             ELSE Continue(<<Read(line)>>, [pc |-> "menu", events |-> <<Echo("adb not found.")>>])
    /\ op' = "shizuku"
    /\ devices' = <<>> /\ preferred' = None /\ connected' = <<>> /\ serial' = None
    /\ UNCHANGED <<found_tools, pairs, parsed>>

\* A line is read at the APK prompt.
ApkPath ==
    /\ pc = "apk"
    /\ \E line \in ApkLines, exists \in BOOLEAN :
          Continue(Append(trace, Read(line)), AfterApkPath(line, exists))
    /\ UNCHANGED <<found_tools, op, localVars, pairs, parsed>>

InstallDone ==
    /\ pc = "install"
    /\ \E outcome \in ChildOutcomes :
          Continue(Append(trace, Exit(outcome)), AfterInstall(outcome))
    /\ UNCHANGED <<found_tools, op, localVars, pairs, parsed>>

PromptPcs == {"menu", "pickdev", "method", "apk"}

\* The input ends (EOFError) at a prompt: no handler of the program catches it.
\* At the menu prompt this is the answer to it, and it opens a new round.
EndOfInput ==
    /\ pc \in PromptPcs
    /\ pc' = "done"
    /\ exit_status' = Some(1)
    /\ ended_by' = "EOFError"
    /\ IF pc = "menu"
       THEN /\ trace' = <<Raise("EOFError")>>
            /\ op' = "none"
            /\ devices' = <<>> /\ preferred' = None /\ connected' = <<>> /\ serial' = None
       ELSE /\ trace' = Append(trace, Raise("EOFError"))
            /\ UNCHANGED <<op, localVars>>
    /\ UNCHANGED <<found_tools, pairs, parsed>>

\* KeyboardInterrupt, at a prompt or in a child: the handler around main_menu
\* prints and calls sys.exit(0).
Interrupt ==
    /\ pc # "done"
    /\ pc' = "done"
    /\ exit_status' = Some(0)
    /\ ended_by' = "interrupt"
    /\ IF pc = "menu"
       THEN /\ trace' = <<Raise("KeyboardInterrupt"), Echo("Interrupted. Exiting.")>>
            /\ op' = "none"
            /\ devices' = <<>> /\ preferred' = None /\ connected' = <<>> /\ serial' = None
       ELSE /\ trace' = trace \o <<Raise("KeyboardInterrupt"), Echo("Interrupted. Exiting.")>>
            /\ UNCHANGED <<op, localVars>>
    /\ UNCHANGED <<found_tools, pairs, parsed>>

Next ==
    \/ MenuQuit
    \/ MenuUnknown
    \/ MenuCreate
    \/ ListDone
    \/ SdkDone
    \/ CreateDone
    \/ MenuDump
    \/ AdbDevicesDone
    \/ PickDevice
    \/ ChooseMethod
    \/ DdDone
    \/ PullDone
    \/ RmDone
    \/ PullSystemDone
    \/ MenuShizuku
    \/ ApkPath
    \/ InstallDone
    \/ EndOfInput
    \/ Interrupt

Spec == Init /\ [][Next]_vars

(***************************************************************************)
(* The parser on catalog text made of well-formed id/name pairs.           *)
(***************************************************************************)

MaxPairs == 2

PairIds == {<<"2","3">>, <<"p","i","x","e","l","_","5">>, <<"0"," ","o","r"," ","a">>}

PairNames == {<<"G","a","l","a","x","y">>, <<"\"","p","i","x","e","l","_","5","\"">>, <<"a",":","b">>}

\* A pair as text: the two lines, the name line indented (as avdmanager
\* indents it) or not.
PairSet == [id : PairIds, name : PairNames, indent : BOOLEAN]

FormatPair(p) ==
    LET pad == IF p.indent THEN <<" "," ">> ELSE <<>>
    IN  <<ID_PREFIX \o <<" ">> \o p.id, pad \o NAME_PREFIX \o <<" ">> \o p.name \o pad>>

RECURSIVE FormatPairs(_)
FormatPairs(ps) ==
    IF ps = <<>> THEN <<>> ELSE FormatPair(Head(ps)) \o FormatPairs(Tail(ps))

ParserInit ==
    /\ pairs \in SeqsUpTo(PairSet, MaxPairs)
    /\ parsed = None
    /\ found_tools = [t \in TOOLS |-> t = "avdmanager"]
    /\ pc = "list"
    /\ op = "none"
    /\ devices = <<>>
    /\ preferred = None
    /\ connected = <<>>
    /\ serial = None
    /\ trace = <<>>
    /\ exit_status = None
    /\ ended_by = "none"

\* list_avd_devices on the text of the pairs.
ParseCatalog ==
    /\ parsed = None
    /\ parsed' = Some(list_avd_devices("ok", JoinLines(FormatPairs(pairs))))
    /\ UNCHANGED <<found_tools, pc, op, devices, preferred, connected, serial,
                   trace, exit_status, ended_by, pairs>>

ParserNext == ParseCatalog

SpecParser == ParserInit /\ [][ParserNext]_vars

\* C1: for catalog text made of N well-formed id:/name: line pairs in order,
\* list_avd_devices returns exactly N records, in order of appearance, and
\* record k carries the id and the name of the k-th pair.
C1_ParserYieldsPairsInOrder ==
    parsed # None =>
        /\ Len(parsed[1]) = Len(pairs)
        /\ \A k \in 1..Len(pairs) :
              parsed[1][k] = [id |-> pairs[k].id, name |-> pairs[k].name]

\* Two pairs with different ids and names, the second with a colon in its
\* name, have been parsed.
C1_Witness ==
    /\ parsed # None
    /\ Len(pairs) = 2
    /\ pairs[1].id # pairs[2].id
    /\ pairs[1].name # pairs[2].name
    /\ pairs[2].name = <<"a",":","b">>
    /\ Len(parsed[1]) = 2

(***************************************************************************)
(* What the claims speak of, read off the state.                           *)
(***************************************************************************)

RunAt(i) == i \in DOMAIN trace /\ trace[i].ev = "run"

IsCreateAvd(argv) ==
    /\ Len(argv) >= 3
    /\ argv[1] = Lit("avdmanager") /\ argv[2] = Lit("create") /\ argv[3] = Lit("avd")

\* The places of the `avdmanager create avd` commands of the operation.
CreateRuns == {i \in DOMAIN trace : RunAt(i) /\ IsCreateAvd(trace[i].argv)}

HasDeviceArg(argv) == \E j \in DOMAIN argv : argv[j] = Lit("--device")

\* argv holds `--device <id>`.
PassesDevice(argv, id) ==
    \E j \in 1..(Len(argv) - 1) : argv[j] = Lit("--device") /\ argv[j + 1] = Val(id)

\* The commands `adb -s <serial> ...` of the operation.
SerialRuns ==
    {i \in DOMAIN trace : RunAt(i) /\ Len(trace[i].argv) >= 2 /\ trace[i].argv[2] = Lit("-s")}

Echoed(msg) == \E i \in DOMAIN trace : trace[i] = Echo(msg)

\* The catalog of a create operation has been read (or there is no avdmanager
\* to read it from).
Listed == op \in {"samsung", "pixel"} /\ pc # "list"

NameHas(d, word) == Contains(Lower(GetName(d)), word)

IdHas(d, word) == Contains(Lower(GetId(d)), word)

GALAXY == <<"g","a","l","a","x","y">>

HasSamsungName(d) ==
    \/ NameHas(d, GALAXY)
    \/ NameHas(d, <<"s","a","m","s","u","n","g">>)
    \/ NameHas(d, <<"l","a","r","g","e">>)
    \/ NameHas(d, <<"x","l","a","r","g","e">>)

FallbackWords ==
    <<<<"p","i","x","e","l","_","6">>, <<"p","i","x","e","l","_","5">>,
      <<"n","e","x","u","s"," ","6">>, <<"n","e","x","u","s"," ","5","x">>>>

HasFallbackWord(d, k) == NameHas(d, FallbackWords[k]) \/ IdHas(d, FallbackWords[k])

HasAnyFallbackWord(d) == \E k \in DOMAIN FallbackWords : HasFallbackWord(d, k)

\* The least index whose flag is set, 0 when none is.
FirstIndex(flags) ==
    IF \E i \in DOMAIN flags : flags[i]
    THEN CHOOSE i \in DOMAIN flags : flags[i] /\ \A j \in 1..(i - 1) : ~flags[j]
    ELSE 0

\* The first record of the catalog whose name contains a Samsung keyword, one
\* whose name or identifier contains a fallback string, fallback string k, one
\* that the Pixel heuristic takes.
FirstSamsung == FirstIndex([i \in DOMAIN devices |-> HasSamsungName(devices[i])])

FirstAnyFallback == FirstIndex([i \in DOMAIN devices |-> HasAnyFallbackWord(devices[i])])

FallbackHit(k) == FirstIndex([i \in DOMAIN devices |-> HasFallbackWord(devices[i], k)])

(***************************************************************************)
(* C2                                                                      *)
(***************************************************************************)

\* C2: for a catalog with a record whose name contains "galaxy" in any case,
\* the profile create_samsung_device passes to AVD creation is the identifier
\* of the first record, in catalog order, whose name contains a Samsung
\* keyword; no create command carries another --device.
C2_SamsungPassesFirstKeywordMatch ==
    (Listed /\ op = "samsung" /\ \E i \in DOMAIN devices : NameHas(devices[i], GALAXY)) =>
        LET first == devices[FirstSamsung]
        IN  /\ preferred = Some(first.id)
            /\ \A i \in CreateRuns : \A j \in DOMAIN trace[i].argv :
                  trace[i].argv[j] = Lit("--device") => trace[i].argv[j + 1] = Val(first.id)

(***************************************************************************)
(* C3                                                                      *)
(***************************************************************************)

NoSamsungNoFallback ==
    \A i \in DOMAIN devices : ~HasSamsungName(devices[i]) /\ ~HasAnyFallbackWord(devices[i])

\* C3: for a catalog, the empty one included, in which no name contains a
\* Samsung keyword and no name or identifier contains a fallback string, the
\* Samsung selector yields an absent profile and the create command then
\* issued contains no --device argument.
C3_NoMatchNoDeviceArg ==
    (Listed /\ op = "samsung" /\ NoSamsungNoFallback) =>
        /\ preferred = None
        /\ \A i \in CreateRuns : ~HasDeviceArg(trace[i].argv)

\* A catalog with a record and without a match, and its create command issued.
C3_Witness ==
    /\ Listed /\ op = "samsung" /\ NoSamsungNoFallback
    /\ devices # <<>>
    /\ CreateRuns # {}

(***************************************************************************)
(* C4                                                                      *)
(***************************************************************************)

\* `adb devices` of the dump operation exited zero.
AdbDevicesListed ==
    /\ op = "dump"
    /\ \E i \in DOMAIN trace :
          /\ RunAt(i) /\ trace[i].argv = <<Lit("adb"), Lit("devices")>>
          /\ i + 1 \in DOMAIN trace /\ trace[i + 1] = Exit("ok")

\* C4: when `adb devices` reports no connected device, the dump operation
\* aborts with a message before the device prompt and the method prompt,
\* issues no `adb -s <serial>` command, and control is back at the menu.
\* (trace[1] is the menu choice that was read; no prompt follows it.)
C4_NoDevicesAbortsBeforePrompts ==
    (AdbDevicesListed /\ connected = <<>>) =>
        /\ Echoed("No devices/emulators attached.")
        /\ \A i \in 2..Len(trace) : trace[i].ev \notin {"input", "read"}
        /\ SerialRuns = {}
        /\ pc = "menu"

\* `adb devices` exited zero with output that names no device.
C4_Witness == AdbDevicesListed /\ connected = <<>> /\ pc = "menu"

(***************************************************************************)
(* C5                                                                      *)
(***************************************************************************)

\* The place of the line read at the device prompt, 0 when none was read.
DeviceAnswerAt ==
    IF \E i \in DOMAIN trace :
          /\ trace[i] = Input("Pick device number (default 1): ")
          /\ i + 1 \in DOMAIN trace /\ trace[i + 1].ev = "read"
    THEN 1 + CHOOSE i \in DOMAIN trace :
                /\ trace[i] = Input("Pick device number (default 1): ")
                /\ i + 1 \in DOMAIN trace /\ trace[i + 1].ev = "read"
    ELSE 0

\* C5: with N devices listed, an empty line at the device prompt selects the
\* first device, a line that is a number k in 1..N selects the k-th, and any
\* other line is reported as an invalid choice: no serial is selected, no
\* dump command is issued and the process does not crash.
C5_OnlyIndicesSelect ==
    (op = "dump" /\ DeviceAnswerAt # 0) =>
        LET line == Strip(trace[DeviceAnswerAt].line)
            k == IntOf(line)
            N == Len(connected)
        IN  IF line = <<>> THEN serial = Some(connected[1][1])
            ELSE IF k # None /\ k[1] \in 1..N THEN serial = Some(connected[k[1]][1])
            ELSE /\ serial = None
                 /\ Echoed("Invalid choice.")
                 /\ SerialRuns = {}
                 /\ pc = "menu"

(***************************************************************************)
(* C6                                                                      *)
(***************************************************************************)

IsPixelRecord(d) ==
    \/ NameHas(d, <<"p","i","x","e","l">>)
    \/ IdHas(d, <<"p","i","x","e","l","_","6">>)
    \/ IdHas(d, <<"p","i","x","e","l","_","3">>)

\* C6: on a Pixel request the selector returns the identifier of the
\* first record, in catalog order, whose name contains "pixel" or whose
\* identifier contains "pixel_6" or "pixel_3", and the create command then
\* issued contains --device <that identifier>.
C6_PixelAlwaysPassesDevice ==
    (Listed /\ op = "pixel" /\ \E i \in DOMAIN devices : IsPixelRecord(devices[i])) =>
        LET first == devices[FirstIndex([i \in DOMAIN devices |-> IsPixelRecord(devices[i])])]
        IN  /\ preferred = Some(first.id)
            /\ \A i \in CreateRuns : PassesDevice(trace[i].argv, first.id)

(***************************************************************************)
(* C7                                                                      *)
(***************************************************************************)

\* C7: no error ends the process: it ends only on q/quit/exit or on an
\* interrupt, and then with exit status 0.
C7_OnlyQuitOrInterruptEnds ==
    /\ exit_status \in {None, Some(0)}
    /\ pc = "done" => ended_by \in {"quit", "interrupt"}

(***************************************************************************)
(* C8                                                                      *)
(***************************************************************************)

NoSamsungName == \A i \in DOMAIN devices : ~HasSamsungName(devices[i])

\* C8 as stated: when no name contains a Samsung keyword, the Samsung selector
\* picks the first catalog entry, in catalog order, whose name or identifier
\* contains any of the fallback strings.
C8_FallbackInCatalogOrder ==
    (Listed /\ op = "samsung" /\ NoSamsungName
        /\ \E i \in DOMAIN devices : HasAnyFallbackWord(devices[i])) =>
        preferred = Some(devices[FirstAnyFallback].id)

\* The fallback strings whose first entry has an identifier that is not empty.
UsableFallbacks ==
    {k \in DOMAIN FallbackWords : FallbackHit(k) # 0 /\ devices[FallbackHit(k)].id # <<>>}

\* C8 as amended: the fallback strings are taken in the order pixel_6,
\* pixel_5, Nexus 6, Nexus 5X; each stands for the first catalog entry whose
\* name or identifier contains it, and the selector picks the entry of the
\* first string whose entry has an identifier that is not empty.  When every
\* entry so found has an empty identifier the profile is the empty string,
\* and when no entry is found it is absent.
C8_FallbackInPriorityOrder ==
    (Listed /\ op = "samsung" /\ NoSamsungName) =>
        IF UsableFallbacks # {}
        THEN LET k == CHOOSE x \in UsableFallbacks : \A y \in UsableFallbacks : x <= y
             IN  preferred = Some(devices[FallbackHit(k)].id)
        ELSE IF \E k \in DOMAIN FallbackWords : FallbackHit(k) # 0
             THEN preferred = Some(<<>>)
        ELSE preferred = None

\* A catalog that lists a pixel_5 record before a pixel_6 record: the pixel_6
\* record is picked and passed to the create command.
C8_Witness ==
    /\ op = "samsung"
    /\ devices = <<[id |-> <<"p","i","x","e","l","_","5">>], [id |-> <<"p","i","x","e","l","_","6">>]>>
    /\ preferred = Some(<<"p","i","x","e","l","_","6">>)
    /\ \E i \in CreateRuns : PassesDevice(trace[i].argv, <<"p","i","x","e","l","_","6">>)

(***************************************************************************)
(* C9                                                                      *)
(***************************************************************************)

IsDumpStep(e) ==
    serial # None /\ e \in {Run(DdCmd(serial[1])), Run(PullImgCmd(serial[1])), Run(RmCmd(serial[1]))}

Count(e) == Cardinality({i \in DOMAIN trace : trace[i] = e})

\* C9: in dump method 1 the commands on the selected serial are dd, the pull
\* of /sdcard/system.img to <serial>_system.img and the rm of
\* /sdcard/system.img, in this order and each at most once; the pull comes
\* only after dd exited zero, the rm only after the pull exited zero; a
\* non-zero exit of any of the three is reported with the advice to check root
\* or try method 2 and returns control to the menu with no further command.
C9_DumpStepsInOrder ==
    (op = "dump" /\ serial # None) =>
        LET dd == Run(DdCmd(serial[1]))
            pull == Run(PullImgCmd(serial[1]))
            rm == Run(RmCmd(serial[1]))
        IN  /\ Count(dd) <= 1 /\ Count(pull) <= 1 /\ Count(rm) <= 1
            /\ \A i \in DOMAIN trace :
                  /\ trace[i] = pull =>
                        i > 2 /\ trace[i - 1] = Exit("ok") /\ trace[i - 2] = dd
                  /\ trace[i] = rm =>
                        \E j \in 1..(i - 2) : trace[j] = pull /\ trace[j + 1] = Exit("ok")
                  /\ (IsDumpStep(trace[i]) /\ i + 1 \in DOMAIN trace /\ trace[i + 1] = Exit("fail")) =>
                        /\ Len(trace) = i + 2
                        /\ trace[i + 2] = Echo(DUMP_FAILED)
                        /\ pc = "menu"

\* The pull failed after a successful dd, and no remote rm was issued.
C9_Witness ==
    /\ op = "dump" /\ serial # None
    /\ \E i \in DOMAIN trace :
          /\ trace[i] = Run(PullImgCmd(serial[1]))
          /\ trace[i - 1] = Exit("ok")
          /\ i + 1 \in DOMAIN trace /\ trace[i + 1] = Exit("fail")
    /\ Count(Run(RmCmd(serial[1]))) = 0
    /\ pc = "menu"

(***************************************************************************)
(* C10                                                                     *)
(***************************************************************************)

IsSdk(argv) == Len(argv) = 2 /\ argv[1] = Lit("sdkmanager")

SdkRuns == {i \in DOMAIN trace : RunAt(i) /\ IsSdk(trace[i].argv)}

SDK_MISSING == "sdkmanager not found; cannot install system images automatically."

\* The system-image step is over: sdkmanager is missing, or it exited, zero
\* or not.
SdkStepOver ==
    \/ Echoed(SDK_MISSING)
    \/ \E i \in SdkRuns : i + 1 \in DOMAIN trace /\ trace[i + 1] \in {Exit("ok"), Exit("fail")}

\* C10: in create_avd the system-image step comes before the AVD creation and
\* its failure is not fatal: with avdmanager present, exactly one command
\* `avdmanager create avd --name <name> --package <pkg> --force` is issued
\* once sdkmanager is found missing, has exited zero or has exited non-zero;
\* its <pkg> is the package id handed to sdkmanager; and a non-zero exit of
\* the create command ends that operation only.
C10_CreateAfterSystemImage ==
    op \in {"samsung", "pixel"} =>
        /\ \A i \in CreateRuns :
              /\ \/ \E j \in 1..(i - 1) : trace[j] = Echo(SDK_MISSING)
                 \/ \E j \in SdkRuns : j + 1 < i /\ trace[j + 1].ev = "exit"
              /\ SubSeq(trace[i].argv, 1, 5)
                    = <<Lit("avdmanager"), Lit("create"), Lit("avd"), Lit("--name"), Lit(AvdName(op))>>
              /\ trace[i].argv[6] = Lit("--package")
              /\ trace[i].argv[7] = Lit("system-images;android-31;google_apis;x86_64")
              /\ trace[i].argv[8] = Lit("--force")
              /\ \A j \in SdkRuns : trace[j].argv[2] = trace[i].argv[7]
              /\ (i + 1 \in DOMAIN trace /\ trace[i + 1] = Exit("fail")) =>
                    /\ Echoed("Failed to create AVD. Output:")
                    /\ pc = "menu"
        /\ (found_tools["avdmanager"] /\ SdkStepOver) => Cardinality(CreateRuns) = 1
        /\ Cardinality(CreateRuns) <= 1

\* sdkmanager exited non-zero, the create command was issued all the same and
\* exited non-zero too.
C10_Witness ==
    /\ op \in {"samsung", "pixel"}
    /\ \E j \in SdkRuns : j + 1 \in DOMAIN trace /\ trace[j + 1] = Exit("fail")
    /\ \E i \in CreateRuns : i + 1 \in DOMAIN trace /\ trace[i + 1] = Exit("fail")
    /\ pc = "menu"

=============================================================================
